---- MODULE Spec2Model ----
(***************************************************************************)
(* A state-machine model of markov_chains (src/main.rs): input-mode        *)
(* detection and tokenization (main, tokenize_input), training             *)
(* (MarkovGeneratorBase::from_tokens), prediction (predict, random_state)  *)
(* and the generation loop of main.                                        *)
(*                                                                         *)
(* Ids, rows and columns are 0-based as in the source; TLA+ sequences are  *)
(* 1-based, so the state with id j is state_indicies[j + 1].               *)
(***************************************************************************)
EXTENDS Integers, Sequences, FiniteSets, TLC

\* ------------------------------------------------------------------------
\* Bounds of the model
\* ------------------------------------------------------------------------
\* longest explicitly enumerated token sequence
MaxLen == 6
\* largest chain order (--state-size)
MaxStateSize == 2
\* largest --output-size
MaxOutputSize == 3
\* longest input byte stream
MaxBytes == 4

\* largest value of a matrix count (mat: CsMat<u16>)
U16Max == 65535

\* the token vocabulary of the training corpora
Tokens == {"a", "b"}

\* ------------------------------------------------------------------------
\* Option<T>
\* ------------------------------------------------------------------------
None == <<>>
Some(x) == <<x>>

\* ------------------------------------------------------------------------
\* The token vector handed to from_tokens.  A corpus is the vector whose
\* first Len(head) elements are head and whose remaining elements, up to
\* len, are all the token fill.  Every explicit vector is the corpus with
\* len = Len(head); the long corpora need no 65 537-element value per state.
\* ------------------------------------------------------------------------
Corpus(head, fill, len) == [head |-> head, fill |-> fill, len |-> len]

\* tokens.len()
tokens_len(t) == t.len

\* tokens[j], j 0-based
token_at(t, j) == IF j < Len(t.head) THEN t.head[j + 1] ELSE t.fill

\* &tokens[from..to] as a vector
slice(t, from, to) == [j \in 1..(to - from) |-> token_at(t, from + j - 1)]

\* State::from_slice: the last state_size tokens of a vector
from_slice(toks, size) ==
    LET index == IF Len(toks) >= size THEN Len(toks) - size ELSE 0
    IN SubSeq(toks, index + 1, Len(toks))

\* ------------------------------------------------------------------------
\* StateIndex for Vec<State>
\* ------------------------------------------------------------------------
\* get_state: self.get(index)
get_state(states, index) ==
    IF index >= 0 /\ index < Len(states) THEN Some(states[index + 1]) ELSE None

\* get_index: self.iter().position(|s| s == state)
get_index(states, state) ==
    LET hits == {j \in 1..Len(states) : states[j] = state}
    IN IF hits = {} THEN None
       ELSE Some((CHOOSE j \in hits : \A h \in hits : j <= h) - 1)

\* a registry that puts every new state at the front (Vec::insert(0, ..))
insert_front(states, index, state) == <<state>> \o states

\* insert: Vec::insert(index, state), the elements from index on shift right
insert(states, index, state) ==
    SubSeq(states, 1, index) \o <<state>> \o SubSeq(states, index + 1, Len(states))

\* ------------------------------------------------------------------------
\* The sparse matrix: a function from the stored (row, col) pairs to counts
\* ------------------------------------------------------------------------
\* CsMat::zero
mat_zero == [p \in {} |-> 0]

\* mat.get_mut(row, col) / mat.get(row, col)
mat_get(m, row, col) ==
    IF <<row, col>> \in DOMAIN m THEN Some(m[<<row, col>>]) ELSE None

\* mat.insert(row, col, v), also the write through get_mut's reference
mat_set(m, row, col, v) ==
    [p \in (DOMAIN m) \cup {<<row, col>>} |-> IF p = <<row, col>> THEN v ELSE m[p]]

\* *count += 1 on a u16: overflow panics when the build checks overflow,
\* and wraps to 0 otherwise
add_one(count, checks) ==
    IF count + 1 <= U16Max THEN Some(count + 1)
    ELSE IF checks THEN None
    ELSE Some((count + 1) % (U16Max + 1))

\* the transition recorded with row and column exchanged
record_transition_swapped(m, row, col, checks) ==
    LET got == mat_get(m, col, row)
    IN IF got = None THEN Some(mat_set(m, col, row, 1))
       ELSE LET sum == add_one(got[1], checks)
            IN IF sum = None THEN None ELSE Some(mat_set(m, col, row, sum[1]))

\* match mat.get_mut(row, col) { Some(count) => *count += 1,
\*                               None => mat.insert(row, col, 1) }
\* None stands for the overflow panic
record_transition(m, row, col, checks) ==
    LET got == mat_get(m, row, col)
    IN IF got = None THEN Some(mat_set(m, row, col, 1))
       ELSE LET sum == add_one(got[1], checks)
            IN IF sum = None THEN None ELSE Some(mat_set(m, row, col, sum[1]))

\* the stored columns of a row: mat.outer_view(row).iter()
row_columns(m, row) == {p[2] : p \in {q \in DOMAIN m : q[1] = row}}

\* ------------------------------------------------------------------------
\* State
\* ------------------------------------------------------------------------
VARIABLES
    overflow_checks,      \* build profile: TRUE when integer overflow panics
    tokens,               \* from_tokens' tokens
    state_size,           \* from_tokens' state_size, then markov.state_size
    pc,                   \* position in main / from_tokens
    fault,                \* the panic that ended the run, "" when none
    max_possible_states,  \* both dimensions of mat
    state_indicies,       \* from_tokens' state_indicies, then markov.states
    mat,                  \* from_tokens' mat, then markov.mat
    current_rows,
    i,
    last_state_index,
    output_size,          \* args.output_size
    seed,                 \* "phrase" or "random": which branch of main seeded
    total_tokens,
    iter,                 \* iterations of the generation loop done
    current_state,        \* argument of the latest predict call
    prev_state,
    output,
    input,                \* the bytes of the input file / stdin
    mode,                 \* branch main took on the magic bytes
    rd,                   \* bytes the reader has consumed
    current_token,
    input_tokens

trainVars == <<overflow_checks, tokens, state_size, max_possible_states,
               state_indicies, mat, current_rows, i, last_state_index>>
genVars == <<output_size, seed, total_tokens, iter, current_state, prev_state, output>>
inputVars == <<input, mode, rd, current_token, input_tokens>>
vars == <<pc, fault, trainVars, genVars, inputVars>>

\* panic!: the run ends, nothing is returned
Panic(msg) ==
    /\ pc' = "panic"
    /\ fault' = msg

\* ------------------------------------------------------------------------
\* MarkovGeneratorBase::from_tokens
\* ------------------------------------------------------------------------
\* let max_possible_states = tokens.len() - (state_size as usize - 1);
\* let mut mat = CsMat::zero((max_possible_states, max_possible_states));
\* A usize subtraction below zero panics when the build checks overflow.
\* Otherwise it wraps to 2^64 + d (d < 0 the mathematical difference, which
\* max_possible_states then holds as d), and the matrix of that dimension is
\* allocated: its d + 2^64 + 1 row pointers exceed any allocation (capacity
\* overflow), except for d = -1, where that length wraps to 0 and the
\* constructor either panics or goes on with an unusable matrix.
from_tokens_enter ==
    /\ pc = "from_tokens"
    /\ LET d == tokens_len(tokens) - (state_size - 1)
       IN \/ /\ d >= 0
             /\ max_possible_states' = d
             /\ pc' = "loop"
             /\ UNCHANGED fault
          \/ /\ d < 0
             /\ overflow_checks
             /\ Panic("attempt to subtract with overflow")
             /\ UNCHANGED max_possible_states
          \/ /\ d < 0
             /\ ~overflow_checks
             /\ Panic("capacity overflow")
             /\ UNCHANGED max_possible_states
          \/ /\ d = -1
             /\ ~overflow_checks
             /\ max_possible_states' = d
             /\ pc' = "loop"
             /\ UNCHANGED fault
    /\ state_indicies' = <<>>
    /\ mat' = mat_zero
    /\ current_rows' = 0
    /\ i' = 0
    /\ last_state_index' = None
    /\ UNCHANGED <<overflow_checks, tokens, state_size, genVars, inputVars>>

\* one iteration of: while (i + state_size as usize) <= tokens.len()
from_tokens_loop ==
    /\ pc = "loop"
    /\ i + state_size <= tokens_len(tokens)
    /\ LET state == from_slice(slice(tokens, i, i + state_size), state_size)
           found == get_index(state_indicies, state)
           row == IF found = None THEN current_rows ELSE found[1]
           states1 == IF found = None THEN insert(state_indicies, row, state)
                      ELSE state_indicies
           rows1 == IF found = None THEN current_rows + 1 ELSE current_rows
           mat1 == IF last_state_index = None THEN Some(mat)
                   ELSE record_transition(mat, row, last_state_index[1], overflow_checks)
       IN IF mat1 = None
          THEN /\ Panic("attempt to add with overflow")
               /\ UNCHANGED <<state_indicies, current_rows, mat, i, last_state_index>>
          ELSE /\ state_indicies' = states1
               /\ current_rows' = rows1
               /\ mat' = mat1[1]
               /\ i' = i + 1
               /\ last_state_index' = Some(row)
               /\ UNCHANGED <<pc, fault>>
    /\ UNCHANGED <<overflow_checks, tokens, state_size, max_possible_states,
                   genVars, inputVars>>

\* the loop condition fails: Self { mat, states: state_indicies, state_size }
from_tokens_return ==
    /\ pc = "loop"
    /\ ~(i + state_size <= tokens_len(tokens))
    /\ pc' = "model"
    /\ UNCHANGED <<fault, trainVars, genVars, inputVars>>

\* ------------------------------------------------------------------------
\* random_state_index, random_state, predict
\* ------------------------------------------------------------------------
\* what a call returns: a state, or the panic that ended it
Returned(state) == [kind |-> "ok", state |-> state, fault |-> ""]
Panicked(msg) == [kind |-> "panic", state |-> <<>>, fault |-> msg]

\* rand::random_range(0..self.states.len()): the ids it may draw; the empty
\* range panics
random_state_index(states) == 0..(Len(states) - 1)

\* the outcomes of random_state()
random_state(states) ==
    IF random_state_index(states) = {}
    THEN {Panicked("random_range: empty range")}
    ELSE {Returned(get_state(states, id)[1]) : id \in random_state_index(states)}

\* the sum of the weights of a row, as the sampler adds them up
RECURSIVE weight_sum(_, _, _)
weight_sum(m, row, cols) ==
    IF cols = {} THEN 0
    ELSE LET c == CHOOSE x \in cols : TRUE
         IN m[<<row, c>>] + weight_sum(m, row, cols \ {c})

\* predict, from the row index on (lines 173-183): the outcomes for the row
\*   outer_view(row_index).unwrap(): None beyond the matrix's dimension
\*   nnz() == 0: random_state()
\*   WeightedIndex::new(weights).unwrap(): an error when the u16 weights sum
\*     to more than u16::MAX or to 0
\*   columns[dist.sample(..)]: any column of non-zero weight
\*   states.get_state(selected_col).unwrap()
predict_row(states, m, dims, row_index) ==
    LET columns == row_columns(m, row_index)
    IN IF dims >= 0 /\ row_index >= dims
       THEN {Panicked("outer_view: called unwrap on None")}
       ELSE IF columns = {} THEN random_state(states)
       ELSE IF weight_sum(m, row_index, columns) > U16Max
       THEN {Panicked("WeightedIndex: overflow of the weights' sum")}
       ELSE IF weight_sum(m, row_index, columns) = 0
       THEN {Panicked("WeightedIndex: no weight is non-zero")}
       ELSE {IF get_state(states, c) = None
             THEN Panicked("get_state: called unwrap on None")
             ELSE Returned(get_state(states, c)[1])
             : c \in {x \in columns : m[<<row_index, x>>] > 0}}

\* predict(current_state): every outcome the random draws allow
predict(states, m, dims, state) ==
    LET found == get_index(states, state)
        row_indices == IF found = None THEN random_state_index(states)
                       ELSE {found[1]}
    IN IF row_indices = {} THEN {Panicked("random_range: empty range")}
       ELSE UNION {predict_row(states, m, dims, r) : r \in row_indices}

\* ------------------------------------------------------------------------
\* main, after the model is built (lines 274-305)
\* ------------------------------------------------------------------------
\* the tokenized initial phrases tried: none, registered and unregistered
\* states, shorter and longer than a state
Phrases == {<<>>, <<"a">>, <<"c">>, <<"b", "a">>, <<"a", "b", "a">>}

\* --output-size values
OutputSizes == 0..MaxOutputSize

\* if let Some(output_path) = args.save: the model is written, main returns
main_save ==
    /\ pc = "model"
    /\ pc' = "saved"
    /\ UNCHANGED <<fault, trainVars, genVars, inputVars>>

\* let total_tokens = args.output_size / markov.state_size;
loop_bound(size, k) == size \div k

\* args.initial_phrase is Some(s): the seed is the last state_size tokens of
\* the phrase, and the whole phrase goes to the output
main_seed_phrase ==
    /\ pc = "model"
    /\ \E phrase \in Phrases, size \in OutputSizes :
          /\ prev_state' = from_slice(phrase, state_size)
          /\ output' = phrase
          /\ output_size' = size
          /\ total_tokens' = loop_bound(size, state_size)
    /\ seed' = "phrase"
    /\ iter' = 0
    /\ pc' = "generate"
    /\ UNCHANGED <<fault, trainVars, current_state, inputVars>>

\* args.initial_phrase is None: the seed is markov.random_state()
main_seed_random ==
    /\ pc = "model"
    /\ \E s \in random_state(state_indicies), size \in OutputSizes :
          IF s.kind = "panic"
          THEN /\ Panic(s.fault)
               /\ UNCHANGED <<prev_state, output, output_size, total_tokens, seed, iter>>
          ELSE /\ prev_state' = s.state
               /\ output' = s.state
               /\ output_size' = size
               /\ total_tokens' = loop_bound(size, state_size)
               /\ seed' = "random"
               /\ iter' = 0
               /\ pc' = "generate"
               /\ UNCHANGED fault
    /\ UNCHANGED <<trainVars, current_state, inputVars>>

\* one iteration of: for _ in 0..total_tokens
\*   prev_state = markov.predict(&prev_state); output.extend_from_slice(..)
main_generate ==
    /\ pc = "generate"
    /\ iter < total_tokens
    /\ current_state' = Some(prev_state)
    /\ \E r \in predict(state_indicies, mat, max_possible_states, prev_state) :
          IF r.kind = "panic"
          THEN /\ Panic(r.fault)
               /\ UNCHANGED <<prev_state, output, iter>>
          ELSE /\ prev_state' = r.state
               /\ output' = output \o r.state
               /\ iter' = iter + 1
               /\ UNCHANGED <<pc, fault>>
    /\ UNCHANGED <<trainVars, output_size, seed, total_tokens, inputVars>>

\* the loop is over: println!("{}", format_output(&output))
main_print ==
    /\ pc = "generate"
    /\ iter = total_tokens
    /\ pc' = "done"
    /\ UNCHANGED <<fault, trainVars, genVars, inputVars>>

\* ------------------------------------------------------------------------
\* Training and generation from a token vector
\* ------------------------------------------------------------------------
\* every token vector of at most MaxLen tokens
ShortCorpora ==
    UNION {{Corpus(s, "a", n) : s \in [1..n -> Tokens]} : n \in 0..MaxLen}

\* the variables of the input stage, which is over
InputIdle ==
    /\ input = <<>>
    /\ mode = "train"
    /\ rd = 0
    /\ current_token = <<>>
    /\ input_tokens = <<>>

\* the locals of from_tokens and main, not yet set
LocalsUnset ==
    /\ fault = ""
    /\ max_possible_states = 0
    /\ state_indicies = <<>>
    /\ mat = mat_zero
    /\ current_rows = 0
    /\ i = 0
    /\ last_state_index = None
    /\ output_size = 0
    /\ seed = ""
    /\ total_tokens = 0
    /\ iter = 0
    /\ current_state = None
    /\ prev_state = <<>>
    /\ output = <<>>

Init ==
    /\ overflow_checks \in BOOLEAN
    /\ tokens \in ShortCorpora
    /\ state_size \in 1..MaxStateSize
    /\ pc = "from_tokens"
    /\ LocalsUnset
    /\ InputIdle

Next ==
    \/ from_tokens_enter
    \/ from_tokens_loop
    \/ from_tokens_return
    \/ main_save
    \/ main_seed_phrase
    \/ main_seed_random
    \/ main_generate
    \/ main_print

Spec == Init /\ [][Next]_vars

\* the corpora on which one transition recurs u16::MAX times and once more:
\* a run of the token "a", alone or after one "b"
LongCorpora ==
    {Corpus(h, "a", Len(h) + U16Max + 1 + e) : h \in {<<>>, <<"b">>}, e \in {0, 1}}

InitLong ==
    /\ overflow_checks \in BOOLEAN
    /\ tokens \in LongCorpora
    /\ state_size = 1
    /\ pc = "from_tokens"
    /\ LocalsUnset
    /\ InputIdle

SpecLong == InitLong /\ [][Next]_vars

\* ------------------------------------------------------------------------
\* What training is to compute, stated on the token vector alone
\* ------------------------------------------------------------------------
\* the number of windows of width k
WindowCount(t, k) == IF tokens_len(t) >= k THEN tokens_len(t) - k + 1 ELSE 0

\* the window starting at position p (0-based)
Window(t, k, p) == [j \in 1..k |-> token_at(t, p + j - 1)]

\* the distinct windows among the first m, in order of first appearance
RECURSIVE FirstSeen(_, _, _)
FirstSeen(t, k, m) ==
    IF m = 0 THEN <<>>
    ELSE LET before == FirstSeen(t, k, m - 1)
             w == Window(t, k, m - 1)
         IN IF \E j \in 1..Len(before) : before[j] = w THEN before
            ELSE Append(before, w)

\* the positions p >= 1 where window p is s and window p - 1 is q
Adjacent(t, k, s, q) ==
    {p \in 1..(WindowCount(t, k) - 1) : Window(t, k, p) = s /\ Window(t, k, p - 1) = q}

\* the states that immediately precede s somewhere in the corpus
Predecessors(t, k, s) ==
    {Window(t, k, p - 1) : p \in {x \in 1..(WindowCount(t, k) - 1) : Window(t, k, x) = s}}

\* main holds a model that from_tokens returned
Trained == pc \in {"model", "saved", "generate", "done"}

\* ------------------------------------------------------------------------
\* Claims about training
\* ------------------------------------------------------------------------
\* C1: training on fewer than state_size tokens ends in a reported
\* InsufficientInput error: it returns no model and does not crash.
C1_ShortInputIsReported ==
    (tokens_len(tokens) < state_size /\ pc \notin {"from_tokens", "loop"})
        => (pc = "error" /\ fault = "InsufficientInput")

\* the corpus a b a b a b, trained with chain order 1
ScenarioTrained ==
    /\ Trained
    /\ tokens = Corpus(<<"a", "b", "a", "b", "a", "b">>, "a", 6)
    /\ state_size = 1

\* the model's states are a and b, and the matrix holds exactly
\* M[id(a)][id(b)] = ab and M[id(b)][id(a)] = ba
ScenarioMatrix(ab, ba) ==
    LET ia == get_index(state_indicies, <<"a">>)
        ib == get_index(state_indicies, <<"b">>)
    IN /\ Len(state_indicies) = 2
       /\ ia # None
       /\ ib # None
       /\ DOMAIN mat = {<<ia[1], ib[1]>>, <<ib[1], ia[1]>>}
       /\ mat[<<ia[1], ib[1]>>] = ab
       /\ mat[<<ib[1], ia[1]>>] = ba

\* C2 as stated: training a b a b a b with chain order 1 registers exactly
\* the states a and b, and the matrix's only entries are
\* M[id(a)][id(b)] = 2 and M[id(b)][id(a)] = 2.
C2_ScenarioAsStated == ScenarioTrained => ScenarioMatrix(2, 2)

\* C2 amended: training a b a b a b with chain order 1 registers exactly
\* the states a and b, and the matrix's only entries are
\* M[id(a)][id(b)] = 2 (b before a, twice) and M[id(b)][id(a)] = 3 (a before
\* b, three times).
C2_ScenarioAmended == ScenarioTrained => ScenarioMatrix(2, 3)

\* C2's case: the scenario's model has been built
C2_Witness == ScenarioTrained /\ pc = "model" /\ mat # mat_zero

\* C3: in the model training returns, M[r][c] is the number of positions
\* p >= 1 where window p is the state with id r and window p - 1 the state
\* with id c; a pair with no such position has no stored entry; and an input
\* of exactly state_size tokens gives one state and an empty matrix.
C3_CountsAreExact ==
    (pc = "model" /\ tokens_len(tokens) >= state_size) =>
        /\ \A r, c \in 0..(Len(state_indicies) - 1) :
              LET n == Cardinality(Adjacent(tokens, state_size,
                                            state_indicies[r + 1], state_indicies[c + 1]))
              IN IF n = 0 THEN mat_get(mat, r, c) = None
                 ELSE mat_get(mat, r, c) = Some(n)
        /\ \A q \in DOMAIN mat : q[1] < Len(state_indicies) /\ q[2] < Len(state_indicies)
        /\ tokens_len(tokens) = state_size
              => (Len(state_indicies) = 1 /\ mat = mat_zero)

\* C4: at every step of training and in the model, the registry is a
\* bijection between the distinct windows seen so far and the ids 0..n-1:
\* the j-th distinct window in order of first appearance has id j,
\* get_index(get_state(id)) = id, no state is registered twice, and len() is
\* the number of distinct windows seen.
C4_RegistryIsDenseBijection ==
    LET n == Len(state_indicies)
    IN /\ state_indicies = FirstSeen(tokens, state_size, i)
       /\ \A id \in 0..(n - 1) :
             get_index(state_indicies, get_state(state_indicies, id)[1]) = Some(id)
       /\ \A j, h \in 1..n : state_indicies[j] = state_indicies[h] => j = h
       /\ n = Cardinality({Window(tokens, state_size, p) : p \in 0..(i - 1)})
       /\ current_rows = n
       /\ get_state(state_indicies, n) = None

\* C4's case: a model in which states recurred and three ids were assigned
C4_Witness ==
    /\ pc = "model"
    /\ Len(state_indicies) >= 3
    /\ i > Len(state_indicies)

\* C5: at every step of training and in the model, every stored matrix
\* entry is at least 1.
C5_StoredCountsArePositive == \A q \in DOMAIN mat : mat[q] >= 1

\* ------------------------------------------------------------------------
\* Claims about prediction and generation
\* ------------------------------------------------------------------------
\* C6: on a model produced by training, predict does not fail, whatever
\* state it is given, and what it returns is a registered state.
C6_PredictReturnsRegisteredState ==
    current_state # None =>
        /\ pc # "panic"
        /\ get_index(state_indicies, prev_state) # None

\* C7: for a registered state s whose row is non-empty, the states predict
\* can return are exactly the states that immediately preceded s in the
\* training sequence; predict does not fail there.
C7_PredictYieldsPredecessors ==
    pc = "model" =>
        \A id \in 0..(Len(state_indicies) - 1) :
            row_columns(mat, id) # {} =>
                predict(state_indicies, mat, max_possible_states, state_indicies[id + 1])
                    = {Returned(q) : q \in Predecessors(tokens, state_size,
                                                        state_indicies[id + 1])}

\* C10: a run seeded with a random state prints exactly output_size tokens.
C10_OutputHasOutputSizeTokens ==
    (pc = "done" /\ seed = "random") => Len(output) = output_size

\* what main does print from a random seed: the seed state's tokens and
\* those of output_size / state_size predicted states
OutputLengthAsBuilt ==
    (pc = "done" /\ seed = "random")
        => Len(output) = state_size * (1 + (output_size \div state_size))

\* ------------------------------------------------------------------------
\* main, the input stage (lines 252-272), and tokenize_input
\* ------------------------------------------------------------------------
\* static MAGIC_FILE_BYTES: [u8; 3] = [0x3, 0x4, 0x5]
MAGIC_FILE_BYTES == <<3, 4, 5>>

\* the bytes input streams are made of: the magic bytes, space, '!', '.',
\* 'A', 'a' (all ASCII: one byte is one char)
Bytes == {3, 4, 5, 32, 33, 46, 65, 97}

\* char::is_whitespace, on ASCII
is_whitespace(ch) == ch \in 9..13 \/ ch = 32

\* char::is_ascii_punctuation
is_ascii_punctuation(ch) ==
    ch \in 33..47 \/ ch \in 58..64 \/ ch \in 91..96 \/ ch \in 123..126

\* char::to_ascii_lowercase
to_ascii_lowercase(ch) == IF ch \in 65..90 THEN ch + 32 ELSE ch

\* finish_token: a non-empty current_token is pushed and cleared
finish_token(cur, toks) ==
    IF cur # <<>> THEN [current_token |-> <<>>, tokens |-> Append(toks, cur)]
    ELSE [current_token |-> cur, tokens |-> toks]

\* current_token.ends_with(|c| c.is_ascii_punctuation())
ends_with_punctuation(cur) == cur # <<>> /\ is_ascii_punctuation(cur[Len(cur)])

\* the body of: for ch in reader.chars()
tokenize_step(cur, toks, ch) ==
    IF is_whitespace(ch) THEN finish_token(cur, toks)
    ELSE IF is_ascii_punctuation(ch)
    THEN LET f == IF ~ends_with_punctuation(cur) THEN finish_token(cur, toks)
                  ELSE [current_token |-> cur, tokens |-> toks]
         IN [current_token |-> Append(f.current_token, to_ascii_lowercase(ch)),
             tokens |-> f.tokens]
    ELSE [current_token |-> Append(cur, to_ascii_lowercase(ch)), tokens |-> toks]

\* let file_preview = reader.fill_buf(): the input is shorter than the
\* reader's buffer, and the read fills the buffer with all of it.
\* file_preview[..3] panics on fewer than 3 bytes.  On the magic bytes the
\* reader consumes them and the rest is deserialized; otherwise the reader,
\* which has consumed nothing, goes to tokenize_input.
main_detect ==
    /\ pc = "start"
    /\ LET file_preview == input
       IN IF Len(file_preview) < 3
          THEN /\ Panic("range end index 3 out of range for slice")
               /\ UNCHANGED <<mode, rd>>
          ELSE IF SubSeq(file_preview, 1, 3) = MAGIC_FILE_BYTES
          THEN /\ mode' = "load"
               /\ rd' = rd + Len(MAGIC_FILE_BYTES)
               /\ pc' = "deserialize"
               /\ UNCHANGED fault
          ELSE /\ mode' = "train"
               /\ pc' = "tokenize"
               /\ UNCHANGED <<fault, rd>>
    /\ UNCHANGED <<input, current_token, input_tokens, trainVars, genVars>>

\* tokenize_input reads one char
tokenize_char ==
    /\ pc = "tokenize"
    /\ rd < Len(input)
    /\ LET r == tokenize_step(current_token, input_tokens, input[rd + 1])
       IN /\ current_token' = r.current_token
          /\ input_tokens' = r.tokens
    /\ rd' = rd + 1
    /\ UNCHANGED <<pc, fault, input, mode, trainVars, genVars>>

\* the reader is at its end: finish_token, Ok(tokens)
tokenize_end ==
    /\ pc = "tokenize"
    /\ rd = Len(input)
    /\ LET r == finish_token(current_token, input_tokens)
       IN /\ current_token' = r.current_token
          /\ input_tokens' = r.tokens
    /\ pc' = "tokenized"
    /\ UNCHANGED <<fault, input, mode, rd, trainVars, genVars>>

InitInput ==
    /\ input \in UNION {[1..n -> Bytes] : n \in 0..MaxBytes}
    /\ mode = ""
    /\ rd = 0
    /\ current_token = <<>>
    /\ input_tokens = <<>>
    /\ pc = "start"
    /\ overflow_checks = FALSE
    /\ tokens = Corpus(<<>>, "a", 0)
    /\ state_size = 1
    /\ LocalsUnset

NextInput ==
    \/ main_detect
    \/ tokenize_char
    \/ tokenize_end

SpecInput == InitInput /\ [][NextInput]_vars

\* ------------------------------------------------------------------------
\* Claims about the input stage
\* ------------------------------------------------------------------------
\* the stream starts with the magic bytes
StartsWithMagic(bytes) ==
    Len(bytes) >= 3 /\ \A j \in 1..3 : bytes[j] = MAGIC_FILE_BYTES[j]

\* the concatenation of a sequence of tokens
RECURSIVE Concat(_)
Concat(toks) == IF toks = <<>> THEN <<>> ELSE Head(toks) \o Concat(Tail(toks))

\* the non-whitespace chars of a stream, lowercased
RECURSIVE Letters(_)
Letters(bytes) ==
    IF bytes = <<>> THEN <<>>
    ELSE IF is_whitespace(Head(bytes)) THEN Letters(Tail(bytes))
    ELSE <<to_ascii_lowercase(Head(bytes))>> \o Letters(Tail(bytes))

\* C8: on every input, empty and shorter than 3 bytes included, main takes
\* the load branch exactly when the first 3 bytes are 03 04 05, consuming
\* those 3 bytes, and otherwise the train branch, which tokenizes the whole
\* stream from its first byte.
C8_ModeFollowsMagic ==
    pc # "start" =>
        /\ pc # "panic"
        /\ mode \in {"load", "train"}
        /\ mode = "load" <=> StartsWithMagic(input)
        /\ mode = "load" => rd = 3
        /\ (mode = "train" /\ pc = "tokenized") => Concat(input_tokens) = Letters(input)

\* 0 for whitespace, 1 for ASCII punctuation, 2 for any other char
CharClass(ch) ==
    IF is_whitespace(ch) THEN 0 ELSE IF is_ascii_punctuation(ch) THEN 1 ELSE 2

\* the maximal runs of one non-whitespace class in a stream, lowercased
RECURSIVE MaximalRuns(_, _)
MaximalRuns(bytes, n) ==
    IF n = 0 THEN <<>>
    ELSE LET before == MaximalRuns(bytes, n - 1)
             ch == bytes[n]
         IN IF CharClass(ch) = 0 THEN before
            ELSE IF n > 1 /\ CharClass(bytes[n - 1]) = CharClass(ch)
            THEN [before EXCEPT ![Len(before)] = Append(@, to_ascii_lowercase(ch))]
            ELSE Append(before, <<to_ascii_lowercase(ch)>>)

\* C9: no token is empty or holds whitespace, no token mixes punctuation
\* with other chars, and the tokens are, in input order, the maximal runs of
\* punctuation and the maximal runs of non-whitespace non-punctuation chars.
C9_TokensAreMaximalRuns ==
    pc = "tokenized" =>
        /\ \A j \in 1..Len(input_tokens) :
              LET tok == input_tokens[j]
              IN /\ tok # <<>>
                 /\ \A h \in 1..Len(tok) : ~is_whitespace(tok[h])
                 /\ \A h, g \in 1..Len(tok) : CharClass(tok[h]) = CharClass(tok[g])
        /\ input_tokens = MaximalRuns(input, Len(input))

====
